---- MODULE Spec2Model ----
(***************************************************************************)
(* Model of app.py, a Streamlit onboarding assistant backed by a remote    *)
(* text-generation service.                                                *)
(*                                                                         *)
(* Streamlit executes the script (main) from top to bottom once per user   *)
(* interaction; st.session_state and the widget values survive between     *)
(* runs, everything else (model, role, context, response) is local to one  *)
(* run.  A run is modelled as the sequence of steps                        *)
(*   check_key -> configure -> widgets -> send -> display -> idle          *)
(* and may halt (st.stop) in check_key or configure.                       *)
(*                                                                         *)
(* A Python string is modelled as a sequence of chunks, a chunk being      *)
(* either one special character or a run of ordinary characters.           *)
(***************************************************************************)
EXTENDS Integers, Sequences, FiniteSets, TLC

\* ------------------------------------------------------------------ bounds

\* Script runs (user interactions) explored in one session.
MaxRuns == 6

\* ------------------------------------------------------------ string helpers

S(x) == <<x>>

IsPrefix(s, t) == Len(s) <= Len(t) /\ SubSeq(t, 1, Len(s)) = s

Contains(sub, s) ==
    \E i \in 0..(Len(s) - Len(sub)) : SubSeq(s, i + 1, i + Len(sub)) = sub

\* ------------------------------------------------------------ company data

policies ==
    << <<S("work_hours"), S("Meta operates on flexible work hours with core collaboration hours from 10 AM to 4 PM local time.")>>,
       <<S("remote_work"), S("Meta offers hybrid work options with a minimum of 3 days in office per week.")>>,
       <<S("code_of_conduct"), S("Meta employees must adhere to our community standards and ethical guidelines.")>>,
       <<S("security"), S("All employees must use two-factor authentication and follow security protocols.")>>,
       <<S("benefits"), S("Comprehensive health insurance, 401(k) matching, RSUs, and wellness programs.")>> >>

roles ==
    [ software_engineer |->
        << <<S("responsibilities"), S("Develop and maintain Meta's products and infrastructure")>>,
           <<S("tools"), S("Internal development tools, Git, Meta's testing frameworks")>>,
           <<S("team_structure"), S("Agile teams with daily standups and bi-weekly sprints")>> >>,
      product_manager |->
        << <<S("responsibilities"), S("Drive product strategy and execution")>>,
           <<S("tools"), S("Product analytics tools, roadmap planning software")>>,
           <<S("team_structure"), S("Cross-functional teams with engineers and designers")>> >>,
      data_scientist |->
        << <<S("responsibilities"), S("Analyze user behavior and product metrics")>>,
           <<S("tools"), S("Internal analytics platforms, Python, SQL")>>,
           <<S("team_structure"), S("Embedded in product teams with regular stakeholder reviews")>> >> ]

faqs ==
    << <<S("first_day"), S("You'll attend orientation, set up your workstation, and meet your team.")>>,
       <<S("it_support"), S("Contact IT Help Desk through workplace portal or email it@meta.com")>>,
       <<S("parking"), S("Free parking available at all Meta offices with registered vehicle")>>,
       <<S("dress_code"), S("Casual dress code - be comfortable and professional")>>,
       <<S("lunch"), S("Free meals provided at all Meta cafeterias")>> >>

\* load_company_data(): the same nested dict on every call.
load_company_data == [policies |-> policies, roles |-> roles, faqs |-> faqs]

\* The options of the role selectbox; the first one is the default.
RoleOptions == <<"software_engineer", "product_manager", "data_scientist">>

RoleSet == {RoleOptions[i] : i \in 1..Len(RoleOptions)}

\* ------------------------------------------------------------ json.dumps

\* json.dumps escapes the quote and the backslash inside a string.
JsonEscapeChunk(c) ==
    IF c = "\"" THEN <<"\\", "\"">>
    ELSE IF c = "\\" THEN <<"\\", "\\">>
    ELSE <<c>>

RECURSIVE JsonEscape(_)
JsonEscape(s) ==
    IF s = <<>> THEN <<>> ELSE JsonEscapeChunk(Head(s)) \o JsonEscape(Tail(s))

JsonDumpsStr(s) == <<"\"">> \o JsonEscape(s) \o <<"\"">>

\* A dict of string -> string, as ordered (key, value) pairs.
RECURSIVE JsonItemsFlat(_)
JsonItemsFlat(d) ==
    IF d = <<>> THEN <<>>
    ELSE JsonDumpsStr(Head(d)[1]) \o <<": ">> \o JsonDumpsStr(Head(d)[2])
         \o (IF Tail(d) = <<>> THEN <<>> ELSE <<", ">> \o JsonItemsFlat(Tail(d)))

JsonDumpsFlat(d) == <<"{">> \o JsonItemsFlat(d) \o <<"}">>

\* A dict of string -> dict of string -> string.
RECURSIVE JsonItemsNested(_)
JsonItemsNested(d) ==
    IF d = <<>> THEN <<>>
    ELSE JsonDumpsStr(Head(d)[1]) \o <<": ">> \o JsonDumpsFlat(Head(d)[2])
         \o (IF Tail(d) = <<>> THEN <<>> ELSE <<", ">> \o JsonItemsNested(Tail(d)))

JsonDumps(d) == <<"{">> \o JsonItemsNested(d) \o <<"}">>

\* ------------------------------------------------------------ inputs

\* Values of the text input the user may type (the empty one included).
Queries ==
    { <<>>,
      <<"What tools do I use?">>,
      <<"Define ", "\"", "RSU", "\"">> }

\* Texts the remote service may return for a generation request.
Texts ==
    { <<>>,
      <<"You use Python and SQL.">>,
      <<"Happy to help!">> }

\* Values of os.getenv('GEMINI_API_KEY'): None, '' or a non-empty key.
ApiKeys == {"absent", "empty", "set"}

\* What model construction and the validation request may do.
CfgOutcomes == {"ok", "configure_raises", "invalid_argument", "other"}

\* What a generation request may do; text_error is response.text raising.
GenOutcomes == {"ok", "invalid_argument", "other", "text_error"}

\* ------------------------------------------------------------ state

VARIABLES
    api_key,        \* the credential in the process environment
    has_history,    \* 'chat_history' in st.session_state
    chat_history,   \* st.session_state.chat_history
    sel_role,       \* widget state of the role selectbox
    text_value,     \* widget state of the text input
    send_pressed,   \* st.button("Send") of the current run
    trigger,        \* the interaction that started the current run
    pc,             \* position of the current run in main()
    run_end,        \* "none", "running", "halted" (st.stop) or "complete"
    runs,           \* script runs started in this session
    model,          \* local: configure_gemini() returned a model
    role,           \* local: the variable role of main()
    panel,          \* lines written to the sidebar role panel in this run
    user_input,     \* local: value returned by st.text_input
    context_obj,    \* local: the dict handed to json.dumps
    context,        \* local: the serialized context
    response,       \* local: value returned by generate_response
    errors,         \* st.error messages displayed in this run
    rendered,       \* transcript lines written in this run
    requests,       \* requests sent to the remote service in this run
    test_calls,     \* validation requests sent by this process
    gen_calls,      \* generation requests sent by this process
    sent,           \* (query, context, prompt) of every generation request
    pre_history,    \* chat_history when the current run started
    cfg_outcome,    \* outcome of model construction in this run
    gen_outcome     \* outcome of the generation request of this run

vars ==
    << api_key, has_history, chat_history, sel_role, text_value, send_pressed,
       trigger, pc, run_end, runs, model, role, panel, user_input, context_obj,
       context, response, errors, rendered, requests, test_calls, gen_calls,
       sent, pre_history, cfg_outcome, gen_outcome >>

session_vars == << has_history, chat_history >>
widget_vars == << sel_role, text_value >>

\* Python's None as the value of response.
None == [none |-> TRUE, text |-> <<>>]
Text(t) == [none |-> FALSE, text |-> t]

\* ------------------------------------------------------------ truthiness

\* Variant of KeyMissing: `api_key is None`, which lets '' through.
KeyIsNone(k) == k = "absent"

\* `not api_key`: None and '' are both falsy.
KeyMissing(k) == k \in {"absent", "empty"}

\* `if user_input:`
QueryGiven(q) == q # <<>>

\* `if response:`: None and '' are both falsy.
ResponseGiven(r) == ~r.none /\ r.text # <<>>

\* ------------------------------------------------------------ exceptions

\* Variant of ExceptExceptionCatches: StopException derived from Exception.
ExceptCatchesStop(exc) == exc \in {"InvalidArgument", "Exception", "StopException"}

\* Whether an `except Exception` clause catches exc.  st.stop() raises
\* StopException, which derives from BaseException and is not caught.
ExceptExceptionCatches(exc) == exc \in {"InvalidArgument", "Exception"}

\* ------------------------------------------------------------ configure_gemini

\* The inner part of configure_gemini: the key check, genai.configure and the
\* validation request with its two handlers.
configure_inner(key, outcome) ==
    IF KeyMissing(key)
    THEN [model |-> FALSE, errs |-> <<"GEMINI_API_KEY not found">>,
          exc |-> "StopException", reqs |-> <<>>]
    ELSE IF outcome = "configure_raises"
    THEN [model |-> FALSE, errs |-> <<>>, exc |-> "Exception", reqs |-> <<>>]
    ELSE LET reqs == << [kind |-> "test", prompt |-> S("Test")] >>
         IN  IF outcome = "ok"
             THEN [model |-> TRUE, errs |-> <<>>, exc |-> "none", reqs |-> reqs]
             ELSE IF outcome = "invalid_argument"
             THEN [model |-> FALSE, errs |-> <<"Invalid API key">>,
                   exc |-> "StopException", reqs |-> reqs]
             ELSE [model |-> FALSE, errs |-> <<"Error initializing Gemini model">>,
                   exc |-> "StopException", reqs |-> reqs]

\* configure_gemini(): the outer handler reports what it catches and stops.
configure_gemini(key, outcome) ==
    LET r == configure_inner(key, outcome)
    IN  IF r.exc # "none" /\ ExceptExceptionCatches(r.exc)
        THEN [r EXCEPT !.errs = Append(@, "Configuration error"),
                       !.exc = "StopException"]
        ELSE r

\* ------------------------------------------------------------ generate_response

PromptHead ==
    << "\n", "You are Meta's AI onboarding assistant. Using the following company information, ",
       "\n", "provide a helpful and friendly response to the query. Stay strictly within the ",
       "\n", "provided context and if information isn't available, kindly say so.",
       "\n", "\n", "Context:", "\n" >>

PromptMid == << "\n", "\n", "Query: " >>

PromptTail ==
    << "\n", "\n",
       "Provide a conversational, helpful response focusing only on relevant information.",
       "\n" >>

\* Variant of Prompt: the prompt also depends on the transcript.
PromptWithHistory(query, ctx) ==
    PromptHead \o ctx \o PromptMid \o query
    \o (IF chat_history = <<>> THEN <<>> ELSE <<"\n", "(conversation continues)">>)
    \o PromptTail

\* The f-string of generate_response.
Prompt(query, ctx) == PromptHead \o ctx \o PromptMid \o query \o PromptTail

\* Variant of generate_response: a failure returns its message as the answer.
generate_response_message(outcome, text) ==
    IF outcome = "ok"
    THEN [ret |-> Text(text), errs |-> <<>>]
    ELSE [ret |-> Text(<<"Error generating response">>),
          errs |-> <<"Error generating response">>]

\* What generate_response returns and displays, given what the request did.
generate_response(outcome, text) ==
    IF outcome = "ok"
    THEN [ret |-> Text(text), errs |-> <<>>]
    ELSE IF outcome = "invalid_argument"
    THEN [ret |-> None, errs |-> <<"API Error: Invalid API key or request">>]
    ELSE [ret |-> None, errs |-> <<"Error generating response">>]

\* ------------------------------------------------------------ role panel

\* key.title() for the keys of a role's dict.
Title(key) ==
    CASE key = S("responsibilities") -> S("Responsibilities")
      [] key = S("tools")            -> S("Tools")
      [] key = S("team_structure")   -> S("Team_Structure")

\* Variant of RoleInfo: the selection is ignored.
RoleInfoDefault(company_data, r) == company_data.roles[RoleOptions[1]]

\* company_data["roles"][role]
RoleInfo(company_data, r) == company_data.roles[r]

\* The lines written for role_info.items().
PanelLines(role_info) ==
    [i \in 1..Len(role_info) |->
        [label |-> Title(role_info[i][1]), value |-> role_info[i][2]]]

\* The dict serialized for a submit.
ContextObj(company_data, r) ==
    << <<S("policies"), company_data.policies>>,
       <<S("role_info"), RoleInfo(company_data, r)>>,
       <<S("faqs"), company_data.faqs>> >>

\* The lines written for the transcript.
TranscriptLines(history) ==
    [i \in 1..Len(history) |->
        IF history[i][1] = "user"
        THEN <<"You:", history[i][2]>>
        ELSE <<"Assistant:", history[i][2]>>]

\* ------------------------------------------------------------ initial state

Init ==
    /\ api_key \in ApiKeys
    /\ has_history = FALSE
    /\ chat_history = <<>>
    /\ sel_role = RoleOptions[1]
    /\ text_value = <<>>
    /\ send_pressed = FALSE
    /\ trigger = "none"
    /\ pc = "idle"
    /\ run_end = "none"
    /\ runs = 0
    /\ model = FALSE
    /\ role = "unset"
    /\ panel = <<>>
    /\ user_input = <<>>
    /\ context_obj = <<>>
    /\ context = <<>>
    /\ response = None
    /\ errors = <<>>
    /\ rendered = <<>>
    /\ requests = <<>>
    /\ test_calls = 0
    /\ gen_calls = 0
    /\ sent = {}
    /\ pre_history = <<>>
    /\ cfg_outcome = "none"
    /\ gen_outcome = "none"

\* ------------------------------------------------------------ interactions

\* Streamlit starts a run of the script: the locals and the page are fresh,
\* the session state and the process are kept.
StartRun(trig, pressed) ==
    /\ pc = "idle"
    /\ runs < MaxRuns
    /\ runs' = runs + 1
    /\ trigger' = trig
    /\ send_pressed' = pressed
    /\ pc' = "check_key"
    /\ run_end' = "running"
    /\ model' = FALSE
    /\ role' = "unset"
    /\ panel' = <<>>
    /\ user_input' = <<>>
    /\ context_obj' = <<>>
    /\ context' = <<>>
    /\ response' = None
    /\ errors' = <<>>
    /\ rendered' = <<>>
    /\ requests' = <<>>
    /\ pre_history' = chat_history
    /\ cfg_outcome' = "none"
    /\ gen_outcome' = "none"
    /\ UNCHANGED << api_key, session_vars, test_calls, gen_calls, sent >>

\* The widgets exist only on a page whose run reached them.
WidgetsShown == pc = "idle" /\ run_end = "complete"

\* The page is opened, or the script is rerun without a widget change.
Rerun ==
    /\ StartRun("rerun", FALSE)
    /\ UNCHANGED widget_vars

\* The user picks another role in the selectbox.
ChangeRole ==
    /\ WidgetsShown
    /\ \E r \in RoleSet \ {sel_role} : sel_role' = r
    /\ StartRun("role", FALSE)
    /\ UNCHANGED text_value

\* The user commits another value of the text input.
EditText ==
    /\ WidgetsShown
    /\ \E q \in Queries \ {text_value} : text_value' = q
    /\ StartRun("text", FALSE)
    /\ UNCHANGED sel_role

\* The user presses Send.
PressSend ==
    /\ WidgetsShown
    /\ StartRun("send", TRUE)
    /\ UNCHANGED widget_vars

\* ------------------------------------------------------------ the script run

\* st.stop(): the run ends here.  The widgets were not created in this run,
\* so Streamlit discards their values.
Halt ==
    /\ pc' = "idle"
    /\ run_end' = "halted"
    /\ sel_role' = RoleOptions[1]
    /\ text_value' = <<>>

\* Variant of SessionInit: the transcript is emptied on every run.
SessionReset(has, history) == <<>>

\* if 'chat_history' not in st.session_state: chat_history = []
SessionInit(has, history) == IF has THEN history ELSE <<>>

\* main(), from the page header to the session state initialisation.
MainCheckKey ==
    /\ pc = "check_key"
    /\ IF KeyMissing(api_key)
       THEN /\ errors' = Append(errors, "Please set up your GEMINI_API_KEY")
            /\ Halt
            /\ UNCHANGED session_vars
       ELSE /\ has_history' = TRUE
            /\ chat_history' = SessionInit(has_history, chat_history)
            /\ pc' = "configure"
            /\ UNCHANGED << errors, run_end, widget_vars >>
    /\ UNCHANGED << api_key, send_pressed, trigger, runs, model, role, panel,
                    user_input, context_obj, context, response, rendered,
                    requests, test_calls, gen_calls, sent, pre_history,
                    cfg_outcome, gen_outcome >>

\* model = configure_gemini(); if model: ...
MainConfigure ==
    /\ pc = "configure"
    /\ \E outcome \in CfgOutcomes :
         LET r == configure_gemini(api_key, outcome)
         IN  /\ cfg_outcome' = outcome
             /\ errors' = errors \o r.errs
             /\ requests' = requests \o r.reqs
             /\ test_calls' = test_calls + Len(r.reqs)
             /\ model' = r.model
             /\ IF r.exc # "none"
                THEN Halt
                ELSE /\ pc' = IF r.model THEN "widgets" ELSE "idle"
                     /\ run_end' = IF r.model THEN run_end ELSE "complete"
                     /\ UNCHANGED widget_vars
    /\ UNCHANGED << api_key, session_vars, send_pressed, trigger, runs, role,
                    panel, user_input, context_obj, context, response,
                    rendered, gen_calls, sent, pre_history, gen_outcome >>

\* The role selectbox, the role panel and the text input.
MainWidgets ==
    /\ pc = "widgets"
    /\ role' = sel_role
    /\ panel' = PanelLines(RoleInfo(load_company_data, sel_role))
    /\ user_input' = text_value
    /\ pc' = "send"
    /\ UNCHANGED << api_key, session_vars, widget_vars, send_pressed, trigger,
                    run_end, runs, model, context_obj, context, response,
                    errors, rendered, requests, test_calls, gen_calls, sent,
                    pre_history, cfg_outcome, gen_outcome >>

\* The transcript after a submit of query that returned r.
AppendTurn(history, query, r) ==
    IF ResponseGiven(r)
    THEN history \o << <<"user", query>>, <<"assistant", r.text>> >>
    ELSE history

\* if st.button("Send"): if user_input: ...
MainSend ==
    /\ pc = "send"
    /\ IF send_pressed /\ QueryGiven(user_input)
       THEN \E outcome \in GenOutcomes :
            \E text \in (IF outcome = "ok" THEN Texts ELSE {<<>>}) :
              LET obj == ContextObj(load_company_data, role)
                  ctx == JsonDumps(obj)
                  prompt == Prompt(user_input, ctx)
                  r == generate_response(outcome, text)
              IN  /\ context_obj' = obj
                  /\ context' = ctx
                  /\ requests' = Append(requests, [kind |-> "generate", prompt |-> prompt])
                  /\ gen_calls' = gen_calls + 1
                  /\ sent' = sent \cup {[query |-> user_input, context |-> ctx, prompt |-> prompt]}
                  /\ gen_outcome' = outcome
                  /\ errors' = errors \o r.errs
                  /\ response' = r.ret
                  /\ chat_history' = AppendTurn(chat_history, user_input, r.ret)
       ELSE UNCHANGED << context_obj, context, requests, gen_calls, sent,
                         gen_outcome, errors, response, chat_history >>
    /\ pc' = "display"
    /\ UNCHANGED << api_key, has_history, widget_vars, send_pressed, trigger,
                    run_end, runs, model, role, panel, user_input, rendered,
                    test_calls, pre_history, cfg_outcome >>

\* for role, message in st.session_state.chat_history: ...
MainDisplay ==
    /\ pc = "display"
    /\ rendered' = TranscriptLines(chat_history)
    /\ role' = IF chat_history = <<>> THEN role
               ELSE chat_history[Len(chat_history)][1]
    /\ pc' = "idle"
    /\ run_end' = "complete"
    /\ UNCHANGED << api_key, session_vars, widget_vars, send_pressed, trigger,
                    runs, model, panel, user_input, context_obj, context,
                    response, errors, requests, test_calls, gen_calls, sent,
                    pre_history, cfg_outcome, gen_outcome >>

Next ==
    \/ Rerun
    \/ ChangeRole
    \/ EditText
    \/ PressSend
    \/ MainCheckKey
    \/ MainConfigure
    \/ MainWidgets
    \/ MainSend
    \/ MainDisplay

Spec == Init /\ [][Next]_vars

\* ------------------------------------------------------------ properties

\* The current run finished without st.stop().
RunComplete == pc = "idle" /\ run_end = "complete"

\* The submit handling of the current run has been executed.
AfterSend == pc = "display" \/ RunComplete

\* The current run handles a press of Send with a non-empty text input.
Submitting == AfterSend /\ send_pressed /\ QueryGiven(user_input)

GenFailures == {"invalid_argument", "other", "text_error"}

GenerateRequests == {i \in DOMAIN requests : requests[i].kind = "generate"}

\* C1: a submit of a non-empty query Q for which the generation call returns
\* any text T leaves the transcript equal to the transcript before the run
\* with (user, Q) and (assistant, T) appended.
C1_SubmitAppendsTurn ==
    (Submitting /\ gen_outcome = "ok")
        => chat_history = pre_history \o << <<"user", user_input>>,
                                            <<"assistant", response.text>> >>

\* C2: when the generation call of a submit fails, whatever the kind of
\* failure, the transcript is the one before the run and an error message
\* has been displayed in the run.
C2_FailedSubmitLeavesTranscript ==
    (Submitting /\ gen_outcome \in GenFailures)
        => /\ chat_history = pre_history
           /\ errors # <<>>
           /\ response = None

C2_Witness ==
    /\ RunComplete /\ send_pressed /\ QueryGiven(user_input)
    /\ gen_outcome = "text_error"
    /\ pre_history # <<>>

\* C3: the run that handles a press of Send with an empty text input sends
\* no prompt to the remote service and leaves the transcript unchanged.
C3_EmptySubmitSendsNothing ==
    (RunComplete /\ send_pressed /\ ~QueryGiven(user_input))
        => requests = <<>> /\ chat_history = pre_history

\* C4: with the credential absent or empty no request is ever sent to the
\* remote service, no model is constructed, no widget exists and the
\* transcript is not touched: every run halts in the key check.
C4_MissingKeyHalts ==
    api_key \in {"absent", "empty"}
        => /\ test_calls = 0 /\ gen_calls = 0 /\ requests = <<>>
           /\ ~model /\ panel = <<>> /\ ~WidgetsShown
           /\ ~has_history /\ chat_history = <<>>
           /\ pc \in {"idle", "check_key"}

C4_Witness ==
    /\ api_key = "empty"
    /\ run_end = "halted"
    /\ runs >= 2
    /\ errors = <<"Please set up your GEMINI_API_KEY">>

\* C5: the role panel shows, and the context of a submit holds, the data of
\* the role selected in the run; the context has exactly the keys policies,
\* role_info and faqs, and no data of another role; for data_scientist the
\* context and the prompt contain the tools string.
C5_RoleInfoMatchesSelection ==
    /\ panel # <<>> =>
         /\ Len(panel) = Len(roles[sel_role])
         /\ \A i \in DOMAIN panel :
              /\ panel[i].value = roles[sel_role][i][2]
              /\ panel[i].label = Title(roles[sel_role][i][1])
    /\ context_obj # <<>> =>
         /\ [i \in DOMAIN context_obj |-> context_obj[i][1]]
               = <<S("policies"), S("role_info"), S("faqs")>>
         /\ context_obj[1][2] = policies
         /\ context_obj[2][2] = roles[sel_role]
         /\ context_obj[3][2] = faqs
         /\ \A i \in DOMAIN roles[sel_role] :
              Contains(roles[sel_role][i][2], context)
         /\ \A r \in RoleSet \ {sel_role} : \A i \in DOMAIN roles[r] :
              ~Contains(roles[r][i][2], context)
         /\ sel_role = "data_scientist" =>
              /\ Contains(S("Internal analytics platforms, Python, SQL"), context)
              /\ \E i \in GenerateRequests :
                   Contains(S("Internal analytics platforms, Python, SQL"),
                            requests[i].prompt)

C5_Witness ==
    /\ RunComplete
    /\ sel_role = "data_scientist"
    /\ context_obj # <<>>
    /\ pre_history # <<>>
    /\ role = "assistant"

\* C6: two generation requests for the same query and the same serialized
\* context carry the same prompt, whatever the transcript; the prompt holds
\* the query and the context unmodified as contiguous substrings; the prompt
\* is what is sent.
C6_PromptDeterministic ==
    /\ \A a, b \in sent :
         (a.query = b.query /\ a.context = b.context) => a.prompt = b.prompt
    /\ \A a \in sent :
         Contains(a.query, a.prompt) /\ Contains(a.context, a.prompt)
    /\ \A i \in GenerateRequests :
         [query |-> user_input, context |-> context,
          prompt |-> requests[i].prompt] \in sent

C6_Witness ==
    /\ gen_calls >= 2
    /\ Cardinality(sent) = 1
    /\ AfterSend /\ gen_outcome = "ok"
    /\ pre_history # <<>>
    /\ user_input = <<"Define ", "\"", "RSU", "\"">>

\* C7: a run started by a role change sends no request of any kind to the
\* remote service and leaves the transcript unchanged.
C7_RoleChangeSendsNothing ==
    (RunComplete /\ trigger = "role")
        => requests = <<>> /\ chat_history = pre_history

\* C8: the validation request is sent once per process, and a run sends at
\* most one generation request.
C8_ValidationOncePerProcess ==
    /\ test_calls <= 1
    /\ Cardinality(GenerateRequests) <= 1

WellFormed(history) ==
    /\ Len(history) % 2 = 0
    /\ \A i \in DOMAIN history :
         /\ history[i][1] = (IF i % 2 = 1 THEN "user" ELSE "assistant")
         /\ history[i][2] # <<>>

C10_TranscriptTurns ==
    /\ [](WellFormed(chat_history))
    /\ [][IsPrefix(chat_history, chat_history')]_vars

C10_Witness ==
    /\ Len(chat_history) >= 4
    /\ run_end = "halted"

====
